---- MODULE Spec2Model ----
(***************************************************************************)
(* Trading ledger of the stock-portfolio application                       *)
(* (src/CodeAlpha_Stock-portfolio/aap.py): wallet, portfolio and            *)
(* transactions tables in SQLite, the wallet_add / buy / sell handlers and  *)
(* the read-only views, with money held as IEEE-754 binary64 (REAL).        *)
(***************************************************************************)
EXTENDS Integers, Sequences, FiniteSets, TLC

(***************************************************************************)
(* binary64 arithmetic.  A finite double is a sign and a magnitude; the    *)
(* magnitude is a fixed-point number counted in units of 2^-FracBits and   *)
(* held in four little-endian limbs of LimbBits bits.  Every operation      *)
(* computes the exact result and rounds it to MantBits significant bits,   *)
(* ties to even, which is what Python's float and SQLite's REAL do.         *)
(***************************************************************************)
LimbBits == 24

Base == 16777216

FracBits == 82

MantBits == 53

MagZero == <<0, 0, 0, 0>>

MagAdd(a, b) ==
  LET s1 == a[1] + b[1]
      s2 == a[2] + b[2] + (s1 \div Base)
      s3 == a[3] + b[3] + (s2 \div Base)
      s4 == a[4] + b[4] + (s3 \div Base)
  IN  <<s1 % Base, s2 % Base, s3 % Base, s4 % Base>>

\* a - b for a >= b
MagSub(a, b) ==
  LET d1 == a[1] - b[1]
      d2 == a[2] - b[2] + (d1 \div Base)
      d3 == a[3] - b[3] + (d2 \div Base)
      d4 == a[4] - b[4] + (d3 \div Base)
  IN  <<d1 % Base, d2 % Base, d3 % Base, d4 % Base>>

MagLess(a, b) ==
  \/ a[4] < b[4]
  \/ a[4] = b[4] /\ a[3] < b[3]
  \/ a[4] = b[4] /\ a[3] = b[3] /\ a[2] < b[2]
  \/ a[4] = b[4] /\ a[3] = b[3] /\ a[2] = b[2] /\ a[1] < b[1]

\* a * k for a small natural k
MagMulSmall(a, k) ==
  LET p1 == a[1] * k
      p2 == a[2] * k + (p1 \div Base)
      p3 == a[3] * k + (p2 \div Base)
      p4 == a[4] * k + (p3 \div Base)
  IN  <<p1 % Base, p2 % Base, p3 % Base, p4 % Base>>

\* floor(a / k) and whether the division left a remainder, small k > 0
MagDivSmall(a, k) ==
  LET q4 == a[4] \div k
      r4 == a[4] % k
      q3 == (r4 * Base + a[3]) \div k
      r3 == (r4 * Base + a[3]) % k
      q2 == (r3 * Base + a[2]) \div k
      r2 == (r3 * Base + a[2]) % k
      q1 == (r2 * Base + a[1]) \div k
      r1 == (r2 * Base + a[1]) % k
  IN  [q |-> <<q1, q2, q3, q4>>, inexact |-> r1 # 0]

\* number of significant bits of a limb
BitLen(n) == CHOOSE k \in 0..LimbBits : n < 2 ^ k /\ (k = 0 \/ 2 ^ (k - 1) <= n)

MagBitLen(a) ==
  IF a[4] # 0 THEN 3 * LimbBits + BitLen(a[4])
  ELSE IF a[3] # 0 THEN 2 * LimbBits + BitLen(a[3])
  ELSE IF a[2] # 0 THEN LimbBits + BitLen(a[2])
  ELSE BitLen(a[1])

\* bit j (0 = least significant) of a
MagBit(a, j) == (a[(j \div LimbBits) + 1] \div (2 ^ (j % LimbBits))) % 2

\* some bit below bit n of a is set
MagLowNonzero(a, n) ==
  \E i \in 1..4 :
    LET lo == LimbBits * (i - 1)
    IN  IF lo + LimbBits <= n THEN a[i] # 0
        ELSE IF lo >= n THEN FALSE
        ELSE a[i] % (2 ^ (n - lo)) # 0

\* limb i of a with the bits below bit n of a cleared
LimbClearLow(a, i, n) ==
  LET lo == LimbBits * (i - 1)
  IN  IF lo + LimbBits <= n THEN 0
      ELSE IF lo >= n THEN a[i]
      ELSE a[i] - (a[i] % (2 ^ (n - lo)))

\* a with its n lowest bits cleared
MagClearLow(a, n) ==
  <<LimbClearLow(a, 1, n), LimbClearLow(a, 2, n),
    LimbClearLow(a, 3, n), LimbClearLow(a, 4, n)>>

LimbPow2(i, n) == IF (n \div LimbBits) + 1 = i THEN 2 ^ (n % LimbBits) ELSE 0

\* 2^n
MagPow2(n) == <<LimbPow2(1, n), LimbPow2(2, n), LimbPow2(3, n), LimbPow2(4, n)>>

\* round to nearest, ties to even, at MantBits significant bits; sticky
\* says that the exact value has more bits below the magnitude's last one
Round53(a, sticky) ==
  LET r == MagBitLen(a) - MantBits
  IN  IF r <= 0 THEN a
      ELSE LET guard == MagBit(a, r - 1) = 1
               rest  == sticky \/ MagLowNonzero(a, r - 1)
               odd   == MagBit(a, r) = 1
               t     == MagClearLow(a, r)
           IN  IF guard /\ (rest \/ odd) THEN MagAdd(t, MagPow2(r)) ELSE t

MkFloat(neg, mag) == [neg |-> neg /\ mag # MagZero, mag |-> mag]

\* float(n) for an integer n
FromInt(n) ==
  LET m == IF n < 0 THEN 0 - n ELSE n
  IN  MkFloat(n < 0, <<0, 0, 0, m * (2 ^ (FracBits - 3 * LimbBits))>>)

FZero == FromInt(0)

FNeg(x) == MkFloat(~x.neg, x.mag)

FAdd(x, y) ==
  IF x.neg = y.neg THEN MkFloat(x.neg, Round53(MagAdd(x.mag, y.mag), FALSE))
  ELSE IF MagLess(x.mag, y.mag)
       THEN MkFloat(y.neg, Round53(MagSub(y.mag, x.mag), FALSE))
       ELSE MkFloat(x.neg, Round53(MagSub(x.mag, y.mag), FALSE))

FSub(x, y) == FAdd(x, FNeg(y))

\* x * k, k a natural number (Python int * float)
FMulInt(x, k) == MkFloat(x.neg, Round53(MagMulSmall(x.mag, k), FALSE))

\* x / k, k a positive integer (Python float / int)
FDivInt(x, k) ==
  LET d == MagDivSmall(x.mag, k)
  IN  MkFloat(x.neg, Round53(d.q, d.inexact))

FLess(x, y) ==
  IF x.neg /\ ~y.neg THEN TRUE
  ELSE IF ~x.neg /\ y.neg THEN FALSE
  ELSE IF x.neg THEN MagLess(y.mag, x.mag)
  ELSE MagLess(x.mag, y.mag)

FGreater(x, y) == FLess(y, x)

\* the literal 1e-9 = 0x1.12e0be826d695p-30
Epsilon == MkFloat(FALSE, <<2545301, 3017704, 17, 0>>)


(***************************************************************************)
(* Form values.  A string is a sequence of one-character strings, so that  *)
(* strip(), upper(), int() and float() are computed character by           *)
(* character.                                                              *)
(***************************************************************************)
LowerChars == <<"a","b","c","d","e","f","g","h","i","j","k","l","m",
                "n","o","p","q","r","s","t","u","v","w","x","y","z">>

UpperChars == <<"A","B","C","D","E","F","G","H","I","J","K","L","M",
                "N","O","P","Q","R","S","T","U","V","W","X","Y","Z">>

Digits == <<"0","1","2","3","4","5","6","7","8","9">>

IsSpace(c) == c \in {" ", "\t", "\n"}

IsDigit(c) == \E d \in 1..10 : Digits[d] = c

DigitVal(c) == (CHOOSE d \in 1..10 : Digits[d] = c) - 1

UpperChar(c) ==
  IF \E i \in 1..26 : LowerChars[i] = c
  THEN UpperChars[CHOOSE i \in 1..26 : LowerChars[i] = c]
  ELSE c

\* str.upper()
StrUpper(s) == [i \in 1..Len(s) |-> UpperChar(s[i])]

\* str.strip()
RECURSIVE StrStrip(_)
StrStrip(s) ==
  IF s = <<>> THEN s
  ELSE IF IsSpace(s[1]) THEN StrStrip(Tail(s))
  ELSE IF IsSpace(s[Len(s)]) THEN StrStrip(SubSeq(s, 1, Len(s) - 1))
  ELSE s

AllDigits(s) == s # <<>> /\ \A i \in 1..Len(s) : IsDigit(s[i])

RECURSIVE DigitsVal(_)
DigitsVal(s) ==
  IF s = <<>> THEN 0 ELSE 10 * DigitsVal(SubSeq(s, 1, Len(s) - 1)) + DigitVal(s[Len(s)])

\* int(s): optional surrounding white space, optional sign, decimal digits;
\* anything else raises ValueError (ok = FALSE)
ParseInt(s) ==
  LET t    == StrStrip(s)
      sgn  == t # <<>> /\ t[1] \in {"+", "-"}
      body == IF sgn THEN Tail(t) ELSE t
  IN  IF AllDigits(body)
      THEN [ok |-> TRUE,
            val |-> IF sgn /\ t[1] = "-" THEN 0 - DigitsVal(body) ELSE DigitsVal(body)]
      ELSE [ok |-> FALSE, val |-> 0]

\* the fraction 0.d1d2...dn in units of 2^-FracBits, rounded down, and
\* whether rounding down lost something
RECURSIVE FracMag(_)
FracMag(ds) ==
  IF ds = <<>> THEN [q |-> MagZero, inexact |-> FALSE]
  ELSE LET rest == FracMag(Tail(ds))
           d    == MagDivSmall(MagAdd(FromInt(DigitVal(ds[1])).mag, rest.q), 10)
       IN  [inexact |-> rest.inexact \/ d.inexact, q |-> d.q]

DotAt(s) == IF \E i \in 1..Len(s) : s[i] = "."
            THEN CHOOSE i \in 1..Len(s) : s[i] = "."
            ELSE 0

\* float(s) for plain decimal literals: optional surrounding white space,
\* optional sign, digits with an optional fraction; anything else raises
\* ValueError (ok = FALSE)
ParseFloat(s) ==
  LET t    == StrStrip(s)
      sgn  == t # <<>> /\ t[1] \in {"+", "-"}
      body == IF sgn THEN Tail(t) ELSE t
      dot  == DotAt(body)
      ip   == IF dot = 0 THEN body ELSE SubSeq(body, 1, dot - 1)
      fp   == IF dot = 0 THEN <<>> ELSE SubSeq(body, dot + 1, Len(body))
      wellFormed ==
        /\ \A i \in 1..Len(ip) : IsDigit(ip[i])
        /\ \A i \in 1..Len(fp) : IsDigit(fp[i])
        /\ Len(ip) + Len(fp) > 0
      f    == FracMag(fp)
  IN  IF wellFormed
      THEN [ok |-> TRUE,
            val |-> MkFloat(sgn /\ t[1] = "-",
                      Round53(MagAdd(FromInt(DigitsVal(ip)).mag, f.q), f.inexact))]
      ELSE [ok |-> FALSE, val |-> FZero]


(***************************************************************************)
(* Price resolution                                                        *)
(***************************************************************************)
AAPL == <<"A","A","P","L">>

TSLA == <<"T","S","L","A">>

GOOGL == <<"G","O","O","G","L">>

AMZN == <<"A","M","Z","N">>

MSFT == <<"M","S","F","T">>

META == <<"M","E","T","A">>

FALLBACK_PRICES ==
  [k \in {AAPL, TSLA, GOOGL, AMZN, MSFT, META} |->
     CASE k = AAPL  -> FromInt(180)
       [] k = TSLA  -> FromInt(250)
       [] k = GOOGL -> FromInt(140)
       [] k = AMZN  -> FromInt(155)
       [] k = MSFT  -> FromInt(320)
       [] k = META  -> FromInt(220)]

\* FALLBACK_PRICES.get(symbol, 0.0)
FallbackGet(symbol) ==
  IF symbol \in DOMAIN FALLBACK_PRICES THEN FALLBACK_PRICES[symbol] ELSE FZero

\* What the yfinance lookup of one call yields: a last close, or nothing
\* (exception, empty history).  The prices are the oracle's, not the
\* program's; the set is the part of them the model explores.
OraclePrices == {20, 190}

OracleOutcomes ==
  {[ok |-> FALSE, price |-> FZero]} \cup
  {[ok |-> TRUE, price |-> FromInt(n)] : n \in OraclePrices}

\* mutant: a failed lookup yields 0 without a look at the fallback table
get_live_price_NoTable(symbol, oracle) ==
  IF oracle.ok THEN oracle.price ELSE FZero

get_live_price(symbol, oracle) ==
  LET sym == StrUpper(StrStrip(symbol))
  IN  IF oracle.ok THEN oracle.price ELSE FallbackGet(sym)

\* mutant: every source asks the oracle
BuyPrice_AlwaysLive(symbol, source, oracle) == get_live_price(symbol, oracle)

\* buy's price by source policy
BuyPrice(symbol, source, oracle) ==
  IF source \in {<<"a","u","t","o">>, <<"l","i","v","e">>}
  THEN get_live_price(symbol, oracle)
  ELSE FallbackGet(symbol)

(***************************************************************************)
(* The database: one value holds the three tables.  wallet maps a user id  *)
(* to its balance, portfolio maps <<user_id, symbol>> to a row (the UNIQUE *)
(* constraint), transactions is the rows in id order.                      *)
(***************************************************************************)
Users == {1, 2}

NoUser == 0

None == "None"

NoRow == [qty |-> 0, avg_price |-> FZero, found |-> FALSE]

EmptyDb ==
  [wallet |-> [u \in Users |-> FZero], portfolio |-> <<>>, transactions |-> <<>>]

\* SELECT balance FROM wallet WHERE user_id = ?
get_wallet_balance(d, uid) == d.wallet[uid]

\* mutant: the UPDATE has no WHERE clause
UpdateWalletAdd_EveryUser(d, uid, amount) ==
  [d EXCEPT !.wallet = [u \in DOMAIN @ |-> FAdd(@[u], amount)]]

\* UPDATE wallet SET balance = balance + ? WHERE user_id = ?
UpdateWalletAdd(d, uid, amount) == [d EXCEPT !.wallet[uid] = FAdd(@, amount)]

\* mutant: the deduction credits the wallet
UpdateWalletSub_Adds(d, uid, amount) == [d EXCEPT !.wallet[uid] = FAdd(@, amount)]

\* UPDATE wallet SET balance = balance - ? WHERE user_id = ?
UpdateWalletSub(d, uid, amount) == [d EXCEPT !.wallet[uid] = FSub(@, amount)]

\* SELECT qty, avg_price FROM portfolio WHERE user_id = ? AND symbol = ?
SelectPortfolio(d, uid, symbol) ==
  IF <<uid, symbol>> \in DOMAIN d.portfolio
  THEN [qty |-> d.portfolio[<<uid, symbol>>].qty,
        avg_price |-> d.portfolio[<<uid, symbol>>].avg_price,
        found |-> TRUE]
  ELSE NoRow

\* mutant: the cost of the purchase is stored as the average price
InsertPortfolio_StoresCost(d, uid, symbol, qty, avg) ==
  [d EXCEPT !.portfolio =
     (<<uid, symbol>> :> [qty |-> qty, avg_price |-> FMulInt(avg, qty)]) @@ @]

\* INSERT INTO portfolio (user_id,symbol,qty,avg_price) VALUES (?,?,?,?)
InsertPortfolio(d, uid, symbol, qty, avg) ==
  [d EXCEPT !.portfolio = (<<uid, symbol>> :> [qty |-> qty, avg_price |-> avg]) @@ @]

\* UPDATE portfolio SET qty = ?, avg_price = ? WHERE user_id = ? AND symbol = ?
UpdatePortfolio(d, uid, symbol, qty, avg) ==
  IF <<uid, symbol>> \in DOMAIN d.portfolio
  THEN [d EXCEPT !.portfolio[<<uid, symbol>>] = [qty |-> qty, avg_price |-> avg]]
  ELSE d

\* mutant: the WHERE clause misses the symbol
UpdatePortfolioQty_AllSymbols(d, uid, symbol, qty) ==
  [d EXCEPT !.portfolio =
     [k \in DOMAIN @ |-> IF k[1] = uid THEN [@[k] EXCEPT !.qty = qty] ELSE @[k]]]

\* UPDATE portfolio SET qty = ? WHERE user_id = ? AND symbol = ?
UpdatePortfolioQty(d, uid, symbol, qty) ==
  IF <<uid, symbol>> \in DOMAIN d.portfolio
  THEN [d EXCEPT !.portfolio[<<uid, symbol>>].qty = qty]
  ELSE d

\* DELETE FROM portfolio WHERE user_id = ? AND symbol = ?
DeletePortfolio(d, uid, symbol) ==
  [d EXCEPT !.portfolio = [k \in (DOMAIN @) \ {<<uid, symbol>>} |-> @[k]]]

\* mutant: the new record goes in front of the older ones
InsertTransaction_Prepends(d, uid, typ, symbol, qty, price) ==
  [d EXCEPT !.transactions =
     <<[user_id |-> uid, type |-> typ, symbol |-> symbol,
        qty |-> qty, price |-> price]>> \o @]

\* INSERT INTO transactions (user_id,type,symbol,qty,price,timestamp)
InsertTransaction(d, uid, typ, symbol, qty, price) ==
  [d EXCEPT !.transactions =
     Append(@, [user_id |-> uid, type |-> typ, symbol |-> symbol,
                qty |-> qty, price |-> price])]

\* buy's upsert of the position, computed from the row it selected
BuyUpsert(d, uid, symbol, qty, price) ==
  LET row == SelectPortfolio(d, uid, symbol)
  IN  IF row.found
      THEN LET existing_qty == row.qty
               existing_avg == row.avg_price
               new_qty == existing_qty + qty
               new_avg == FDivInt(FAdd(FMulInt(existing_avg, existing_qty),
                                       FMulInt(price, qty)), new_qty)
           IN  UpdatePortfolio(d, uid, symbol, new_qty, new_avg)
      ELSE InsertPortfolio(d, uid, symbol, qty, price)

\* mutant: a sell of the whole position keeps the row with quantity 0
SellReduce_KeepsRow(d, uid, symbol, remaining) ==
  UpdatePortfolioQty(d, uid, symbol, remaining)

\* sell's reduce-or-delete, from the remaining quantity it computed
SellReduce(d, uid, symbol, remaining) ==
  IF remaining = 0
  THEN DeletePortfolio(d, uid, symbol)
  ELSE UpdatePortfolioQty(d, uid, symbol, remaining)


(***************************************************************************)
(* The read-only views.  Amounts are shown with two decimals: f"{x:.2f}"   *)
(* in the portfolio page, round(x, 2) in the profit data.  Both give the   *)
(* decimal nearest to the exact value of the double, ties to even, which   *)
(* is held here as a sign and a number of cents.                           *)
(***************************************************************************)
\* the whole units of a magnitude
MagIntPart(a) == a[4] \div (2 ^ (FracBits - 3 * LimbBits))

\* the magnitude below one unit
MagFracPart(a) == <<a[1], a[2], a[3], a[4] % (2 ^ (FracBits - 3 * LimbBits))>>

\* a magnitude rounded to hundredths, ties to even, as a number of hundredths
Cents(a) ==
  LET x     == MagMulSmall(MagFracPart(a), 100)
      c     == MagIntPart(x)
      guard == MagBit(x, FracBits - 1) = 1
      rest  == MagLowNonzero(x, FracBits - 1)
      up    == guard /\ (rest \/ c % 2 = 1)
  IN  100 * MagIntPart(a) + c + (IF up THEN 1 ELSE 0)

\* f"{x:.2f}"
Format2(x) == [neg |-> x.neg, cents |-> Cents(x.mag)]

\* round(x, 2)
Round2(x) == [neg |-> x.neg, cents |-> Cents(x.mag)]

\* the number a two-decimal amount stands for, in cents
CentsValue(f) == IF f.neg THEN 0 - f.cents ELSE f.cents

\* SELECT symbol,qty,avg_price FROM portfolio WHERE user_id = ?
SelectPortfolioRows(d, uid) ==
  LET held == {k \in DOMAIN d.portfolio : k[1] = uid}
  IN  [s \in {k[2] : k \in held} |-> d.portfolio[<<uid, s>>]]

\* the rows of a result in the order the loop visits them; with at most two
\* rows the float sums of the loop do not depend on it
RECURSIVE RowOrder(_)
RowOrder(symbols) ==
  IF symbols = {} THEN <<>>
  ELSE LET s == CHOOSE x \in symbols : \A y \in symbols : Len(x) >= Len(y)
       IN  <<s>> \o RowOrder(symbols \ {s})

\* one entry of portfolio's items, with the row's value and cost
PortfolioItem(symbol, r, oracle) ==
  LET qty   == r.qty
      avg   == r.avg_price
      price == get_live_price(symbol, oracle)
      value == FMulInt(price, qty)
      cost  == FMulInt(avg, qty)
      pl    == FSub(value, cost)
  IN  [symbol |-> symbol, qty |-> qty, avg |-> Format2(avg),
       price |-> Format2(price), value |-> Format2(value), pl |-> Format2(pl),
       value_raw |-> value, cost_raw |-> cost, price_raw |-> price, avg_raw |-> avg]

\* total_value += value (cost = FALSE) or total_cost += cost over the items,
\* starting from start
RECURSIVE PortfolioTotal(_, _, _, _)
PortfolioTotal(items, order, cost, start) ==
  IF order = <<>> THEN start
  ELSE PortfolioTotal(items, Tail(order), cost,
         FAdd(start, IF cost THEN items[order[1]].cost_raw
                     ELSE items[order[1]].value_raw))

\* api_profit's entry of one row
ProfitEntry(symbol, r, oracle) ==
  LET qty   == r.qty
      avg   == r.avg_price
      price == get_live_price(symbol, oracle)
      pl    == FMulInt(FSub(price, avg), qty)
  IN  [symbol |-> symbol, qty |-> qty, pl |-> Round2(pl),
       price_raw |-> price, avg_raw |-> avg]

\* SELECT ... FROM transactions WHERE user_id = ? ORDER BY id DESC
RECURSIVE SelectTransactionsDesc(_, _)
SelectTransactionsDesc(log, uid) ==
  IF log = <<>> THEN <<>>
  ELSE (IF log[Len(log)].user_id = uid THEN <<log[Len(log)]>> ELSE <<>>)
       \o SelectTransactionsDesc(SubSeq(log, 1, Len(log) - 1), uid)

(***************************************************************************)
(* The hangman game.  Its state is the Flask session of one player: the    *)
(* keys word, guessed, wrong and score, all set when a game starts and all *)
(* removed by session.clear().  Strings are sequences of characters.       *)
(***************************************************************************)
WORDS ==
  << <<"p","y","t","h","o","n">>, <<"c","o","d","i","n","g">>,
     <<"a","l","p","h","a">>, <<"h","a","n","g","m","a","n">>,
     <<"p","r","o","g","r","a","m">> >>

MAX_WRONG == 6

LowerChar(c) ==
  IF \E i \in 1..26 : UpperChars[i] = c
  THEN LowerChars[CHOOSE i \in 1..26 : UpperChars[i] = c]
  ELSE c

\* str.lower()
StrLower(s) == [i \in 1..Len(s) |-> LowerChar(s[i])]

\* a in b for two strings: a is a substring of b
StrIn(a, b) ==
  \E i \in 0..(Len(b) - Len(a)) : SubSeq(b, i + 1, i + Len(a)) = a

\* x in l for a list of strings
ListIn(x, l) == \E i \in 1..Len(l) : l[i] = x

SessionKeys == {"word", "guessed", "wrong", "score"}

\* the session without a key: a new player, or after session.clear()
EmptySession ==
  [keys |-> {}, word |-> <<>>, guessed |-> <<>>, wrong |-> 0, score |-> 0]

\* session.get("wrong", 0)
SessionGetWrong(s) == IF "wrong" \in s.keys THEN s.wrong ELSE 0

\* the start of game(): a session without a word gets a new game
game_start(s, word) ==
  IF "word" \notin s.keys
  THEN [keys |-> SessionKeys, word |-> word, guessed |-> <<>>, wrong |-> 0, score |-> 0]
  ELSE s

\* mutant: a guess made before is appended and scored again
game_guess_CountsRepeats(s, letter) ==
  IF StrIn(letter, s.word)
  THEN [session |-> [s EXCEPT !.guessed = Append(@, letter), !.score = @ + 10],
        message |-> "Correct!"]
  ELSE [session |-> [s EXCEPT !.guessed = Append(@, letter), !.wrong = @ + 1,
                              !.score = @ - 5],
        message |-> "Wrong!"]

\* the POST branch of game(): the session and the message after the guess
game_guess(s, letter) ==
  IF ListIn(letter, s.guessed)
  THEN [session |-> s, message |-> "Letter already guessed"]
  ELSE IF StrIn(letter, s.word)
  THEN [session |-> [s EXCEPT !.guessed = Append(@, letter), !.score = @ + 10],
        message |-> "Correct!"]
  ELSE [session |-> [s EXCEPT !.guessed = Append(@, letter), !.wrong = @ + 1,
                              !.score = @ - 5],
        message |-> "Wrong!"]

\* " ".join([c if c in guessed else "_" for c in word])
display_word(word, guessed) ==
  [i \in 1..(2 * Len(word) - 1) |->
     IF i % 2 = 0 THEN " "
     ELSE IF ListIn(<<word[(i + 1) \div 2]>>, guessed) THEN word[(i + 1) \div 2]
     ELSE "_"]

\* "_" not in display_word
game_won(display) == ~StrIn(<<"_">>, display)

\* mutant: the game is lost only above MAX_WRONG wrong guesses
game_lost_AboveMax(s) == SessionGetWrong(s) > MAX_WRONG

\* session.get("wrong", 0) >= MAX_WRONG
game_lost(s) == SessionGetWrong(s) >= MAX_WRONG

\* The rest of game() from the display on.  s is the session as read at
\* the top of the handler and g the session and message after the guess.
\* The template gets the wrong and score read at the top.
game_render(s, g) ==
  LET display == display_word(g.session.word, g.session.guessed)
      won     == game_won(display)
      s2      == IF won THEN EmptySession ELSE g.session
      lost    == game_lost(s2)
  IN  [session  |-> IF lost THEN EmptySession ELSE s2,
       response |-> [status |-> 200,
                     display_word |-> display,
                     wrong |-> s.wrong,
                     score |-> s.score,
                     message |-> IF lost THEN "GAME OVER! Word: "
                                 ELSE IF won THEN "YOU WON! Word: "
                                 ELSE g.message,
                     game_over |-> won \/ lost,
                     win |-> won /\ ~lost]]

\* no response yet
NoResponse ==
  [status |-> 0, display_word |-> <<>>, wrong |-> 0, score |-> 0, message |-> "",
   game_over |-> FALSE, win |-> FALSE]

(***************************************************************************)
(* Requests.  Each worker serves one request at a time for the user of its *)
(* session (current_user).  A handler is split where it touches the        *)
(* database: a read statement, each statement of a write transaction, and  *)
(* the commit.  db is the committed database, which every read outside a   *)
(* write transaction sees; the connection that holds SQLite's write lock   *)
(* works on its own copy txn until it commits.                             *)
(***************************************************************************)
VARIABLES db, txn, lock, pc, local, flash, current_user, ops_left, view,
          session, response

vars == <<db, txn, lock, pc, local, flash, current_user, ops_left, view,
          session, response>>

Procs == {1, 2}

\* requests served in a run that starts from the fresh database
MaxOps == 3

\* requests served in a run that starts from the funded account
MaxConcOps == 2

AmountForms ==
  { <<"1","0","0","0">>,
    <<"3","9",".","9","9","9","9","9","9","9","9","9","5">>,
    <<"0">>,
    <<"-","5">>,
    <<"a","b","c">> }

QtyForms == { <<"2">>, <<"5">>, <<"0">>, <<"x">>, <<"-","3">>, <<"2",".","5">> }

SymbolForms == { <<" ","a","a","p","l">>, <<"Z","Z">> }

\* symbol fields left empty or filled with white space
BlankSymbolForms == { <<>>, <<" ", " ">> }

\* the symbols the forms stand for
Symbols == {StrUpper(StrStrip(f)) : f \in SymbolForms \cup BlankSymbolForms}

SourceForms == { <<"a","u","t","o">>, <<"l","i","v","e">>, <<"f","i","x","e","d">> }

\* float(request.form.get("amount")) of each form value, held as an explicit
\* table (@@ builds one) so that each literal is converted once
amount_of == [f \in AmountForms |-> ParseFloat(f)] @@ <<>>

\* int(request.form.get("qty")) of each form value, an explicit table too
qty_of == [f \in QtyForms |-> ParseInt(f)] @@ <<>>

NoLocal ==
  [symbol |-> <<>>, qty |-> 0, price |-> FZero, amount |-> FZero, remaining |-> 0]

NoFlash == "none"

\* what a request of a read-only view answered; none before the first one
NoView ==
  [kind |-> "none", user |-> NoUser, items |-> <<>>, total_value |-> FZero,
   total_cost |-> FZero, wallet |-> FZero]

\* what the price lookup of a view can yield: nothing, or a quote with a
\* fraction
FractionalPrice == ParseFloat(<<"1","5","0",".","0","0","1">>).val

ViewOracleOutcomes ==
  {[ok |-> FALSE, price |-> FZero],
   [ok |-> TRUE, price |-> FractionalPrice]}

InitWorkers(users, ops) ==
  /\ txn = db
  /\ lock = 0
  /\ pc = [p \in Procs |-> "idle"]
  /\ local = [p \in Procs |-> NoLocal]
  /\ flash = [p \in Procs |-> NoFlash]
  /\ current_user = users
  /\ ops_left = ops
  /\ view = [p \in Procs |-> NoView]
  /\ session = EmptySession
  /\ response = NoResponse

\* one session, fresh database
Init ==
  /\ db = EmptyDb
  /\ InitWorkers([p \in Procs |-> IF p = 1 THEN 1 ELSE NoUser], MaxOps)

CanStart(p) ==
  /\ pc[p] = "idle"
  /\ current_user[p] # NoUser
  /\ ops_left > 0

Reject(p, msg) ==
  /\ flash' = [flash EXCEPT ![p] = msg]
  /\ ops_left' = ops_left - 1
  /\ UNCHANGED <<db, txn, lock, pc, local, current_user, session, response, view>>

Proceed(p, label, loc) ==
  /\ pc' = [pc EXCEPT ![p] = label]
  /\ local' = [local EXCEPT ![p] = loc]
  /\ flash' = [flash EXCEPT ![p] = NoFlash]
  /\ ops_left' = ops_left - 1
  /\ UNCHANGED <<current_user, session, response, view>>

Finish(p, msg) ==
  /\ pc' = [pc EXCEPT ![p] = "idle"]
  /\ local' = [local EXCEPT ![p] = NoLocal]
  /\ flash' = [flash EXCEPT ![p] = msg]
  /\ UNCHANGED <<current_user, session, response, ops_left, view>>

Step(p, label) ==
  /\ pc' = [pc EXCEPT ![p] = label]
  /\ UNCHANGED <<local, flash, current_user, session, response, ops_left, view>>

Ok == "ok"

\* mutant: only negative amounts are refused
wallet_add_check_AllowsZero(a) ==
  IF ~a.ok THEN "Invalid amount"
  ELSE IF FLess(a.val, FZero) THEN "Enter positive amount"
  ELSE Ok

\* wallet_add's validation: the flash message of the rejection, or Ok
wallet_add_check(a) ==
  IF ~a.ok THEN "Invalid amount"
  ELSE IF ~FGreater(a.val, FZero) THEN "Enter positive amount"
  ELSE Ok

\* mutant: the amount is validated after the balance update was committed
wallet_add_ValidateAfterWrite(p, amountForm) ==
  /\ CanStart(p)
  /\ LET a == amount_of[amountForm]
     IN  IF ~a.ok THEN Reject(p, "Invalid amount")
         ELSE /\ lock = 0
              /\ db' = UpdateWalletAdd(db, current_user[p], a.val)
              /\ txn' = db'
              /\ UNCHANGED lock
              /\ IF wallet_add_check(a) # Ok
                 THEN /\ flash' = [flash EXCEPT ![p] = wallet_add_check(a)]
                      /\ ops_left' = ops_left - 1
                      /\ UNCHANGED <<pc, local, current_user, session, response, view>>
                 ELSE Proceed(p, "record_transaction", [NoLocal EXCEPT !.amount = a.val])

\* wallet_add up to its commit of the balance
wallet_add(p, amountForm) ==
  /\ CanStart(p)
  /\ LET a == amount_of[amountForm]
     IN  IF wallet_add_check(a) # Ok THEN Reject(p, wallet_add_check(a))
         ELSE /\ lock = 0
              /\ db' = UpdateWalletAdd(db, current_user[p], a.val)
              /\ txn' = db'
              /\ UNCHANGED lock
              /\ Proceed(p, "record_transaction", [NoLocal EXCEPT !.amount = a.val])

\* mutant: the insert is never committed
record_transaction_NoCommit(p) ==
  /\ pc[p] = "record_transaction"
  /\ lock = 0
  /\ UNCHANGED <<db, txn, lock>>
  /\ Finish(p, "Added")

\* wallet_add's call of record_transaction: its own connection and commit
record_transaction(p) ==
  /\ pc[p] = "record_transaction"
  /\ lock = 0
  /\ db' = InsertTransaction(db, current_user[p], "deposit", None, None, local[p].amount)
  /\ txn' = db'
  /\ UNCHANGED lock
  /\ Finish(p, "Added")

\* mutant: a quantity of 0 passes the validation
buy_check_AllowsZero(q, cost, balance) ==
  IF ~q.ok \/ q.val < 0 THEN "Enter positive integer quantity"
  ELSE IF FGreater(cost, FAdd(balance, Epsilon)) THEN "Insufficient wallet balance"
  ELSE Ok

\* buy's validation and balance check: the flash message of the
\* rejection, or Ok
buy_check(q, cost, balance) ==
  IF ~q.ok \/ q.val <= 0 THEN "Enter positive integer quantity"
  ELSE IF FGreater(cost, FAdd(balance, Epsilon)) THEN "Insufficient wallet balance"
  ELSE Ok

\* buy up to and including its balance check
buy(p, symbolForm, qtyForm, source, oracle) ==
  /\ CanStart(p)
  /\ LET symbol  == StrUpper(StrStrip(symbolForm))
         q       == qty_of[qtyForm]
         price   == BuyPrice(symbol, source, oracle)
         cost    == FMulInt(price, q.val)
         balance == get_wallet_balance(db, current_user[p])
     IN  IF buy_check(q, cost, balance) # Ok THEN Reject(p, buy_check(q, cost, balance))
         ELSE /\ Proceed(p, "buy_deduct",
                   [NoLocal EXCEPT !.symbol = symbol, !.qty = q.val,
                                   !.price = price, !.amount = cost])
              /\ UNCHANGED <<db, txn, lock>>

\* UPDATE wallet: the connection's first write opens its transaction
buy_deduct(p) ==
  /\ pc[p] = "buy_deduct"
  /\ lock = 0
  /\ lock' = p
  /\ txn' = UpdateWalletSub(db, current_user[p], local[p].amount)
  /\ UNCHANGED db
  /\ Step(p, "buy_upsert")

\* mutant: the upsert is committed on its own, ahead of the transaction
buy_upsert_Autocommit(p) ==
  /\ pc[p] = "buy_upsert"
  /\ txn' = BuyUpsert(txn, current_user[p], local[p].symbol, local[p].qty, local[p].price)
  /\ db' = BuyUpsert(db, current_user[p], local[p].symbol, local[p].qty, local[p].price)
  /\ UNCHANGED lock
  /\ Step(p, "buy_record")

buy_upsert(p) ==
  /\ pc[p] = "buy_upsert"
  /\ txn' = BuyUpsert(txn, current_user[p], local[p].symbol, local[p].qty, local[p].price)
  /\ UNCHANGED <<db, lock>>
  /\ Step(p, "buy_record")

\* mutant: the record carries the fallback price, not the price charged
buy_record_LogsFallback(p) ==
  /\ pc[p] = "buy_record"
  /\ txn' = InsertTransaction(txn, current_user[p], "buy", local[p].symbol,
                              local[p].qty, FallbackGet(local[p].symbol))
  /\ UNCHANGED <<db, lock>>
  /\ Step(p, "buy_commit")

\* mutant: the record is inserted twice
buy_record_Twice(p) ==
  /\ pc[p] = "buy_record"
  /\ txn' = InsertTransaction(
              InsertTransaction(txn, current_user[p], "buy", local[p].symbol,
                                local[p].qty, local[p].price),
              current_user[p], "buy", local[p].symbol, local[p].qty, local[p].price)
  /\ UNCHANGED <<db, lock>>
  /\ Step(p, "buy_commit")

buy_record(p) ==
  /\ pc[p] = "buy_record"
  /\ txn' = InsertTransaction(txn, current_user[p], "buy", local[p].symbol,
                              local[p].qty, local[p].price)
  /\ UNCHANGED <<db, lock>>
  /\ Step(p, "buy_commit")

buy_commit(p) ==
  /\ pc[p] = "buy_commit"
  /\ db' = txn
  /\ txn' = txn
  /\ lock' = 0
  /\ Finish(p, "Bought")

\* mutant: selling exactly the held quantity is refused
sell_check_OffByOne(q, row) ==
  IF ~q.ok \/ q.val <= 0 THEN "Enter positive integer quantity"
  ELSE IF ~row.found THEN "You do not own this stock"
  ELSE IF q.val >= row.qty THEN "You don't have that many shares"
  ELSE Ok

\* sell's validation and checks of the position row: the flash message of
\* the rejection, or Ok
sell_check(q, row) ==
  IF ~q.ok \/ q.val <= 0 THEN "Enter positive integer quantity"
  ELSE IF ~row.found THEN "You do not own this stock"
  ELSE IF q.val > row.qty THEN "You don't have that many shares"
  ELSE Ok

\* sell up to and including its checks of the position row
sell(p, symbolForm, qtyForm, oracle) ==
  /\ CanStart(p)
  /\ LET symbol == StrUpper(StrStrip(symbolForm))
         q      == qty_of[qtyForm]
         row    == SelectPortfolio(db, current_user[p], symbol)
         price  == get_live_price(symbol, oracle)
     IN  IF sell_check(q, row) # Ok THEN Reject(p, sell_check(q, row))
         ELSE /\ Proceed(p, "sell_position",
                   [NoLocal EXCEPT !.symbol = symbol, !.qty = q.val, !.price = price,
                                   !.amount = FMulInt(price, q.val),
                                   !.remaining = row.qty - q.val])
              /\ UNCHANGED <<db, txn, lock>>

\* DELETE or UPDATE portfolio: the connection's first write opens its
\* transaction
sell_position(p) ==
  /\ pc[p] = "sell_position"
  /\ lock = 0
  /\ lock' = p
  /\ txn' = SellReduce(db, current_user[p], local[p].symbol, local[p].remaining)
  /\ UNCHANGED db
  /\ Step(p, "sell_credit")

sell_credit(p) ==
  /\ pc[p] = "sell_credit"
  /\ txn' = UpdateWalletAdd(txn, current_user[p], local[p].amount)
  /\ UNCHANGED <<db, lock>>
  /\ Step(p, "sell_record")

\* mutant: the record carries the quantity left, not the quantity sold
sell_record_LogsRemaining(p) ==
  /\ pc[p] = "sell_record"
  /\ txn' = InsertTransaction(txn, current_user[p], "sell", local[p].symbol,
                              local[p].remaining, local[p].price)
  /\ UNCHANGED <<db, lock>>
  /\ Step(p, "sell_commit")

sell_record(p) ==
  /\ pc[p] = "sell_record"
  /\ txn' = InsertTransaction(txn, current_user[p], "sell", local[p].symbol,
                              local[p].qty, local[p].price)
  /\ UNCHANGED <<db, lock>>
  /\ Step(p, "sell_commit")

sell_commit(p) ==
  /\ pc[p] = "sell_commit"
  /\ db' = txn
  /\ txn' = txn
  /\ lock' = 0
  /\ Finish(p, "Sold")

\* mutant: the totals are not reset, they go on from the worker's last view
portfolio_KeepsTotals(p, oracle) ==
  /\ CanStart(p)
  /\ LET uid   == current_user[p]
         rows  == SelectPortfolioRows(db, uid)
         items == [s \in DOMAIN rows |-> PortfolioItem(s, rows[s], oracle[s])]
         order == RowOrder(DOMAIN rows)
     IN  view' = [view EXCEPT ![p] =
                    [kind |-> "portfolio_rows", user |-> uid, items |-> items,
                     total_value |-> PortfolioTotal(items, order, FALSE, view[p].total_value),
                     total_cost |-> PortfolioTotal(items, order, TRUE, view[p].total_cost),
                     wallet |-> FZero]]
  /\ pc' = [pc EXCEPT ![p] = "portfolio_wallet"]
  /\ flash' = [flash EXCEPT ![p] = NoFlash]
  /\ ops_left' = ops_left - 1
  /\ UNCHANGED <<db, txn, lock, local, current_user, session, response>>

\* portfolio up to the end of its loop over the rows it selected; oracle
\* gives the outcome of the price lookup of each symbol
portfolio(p, oracle) ==
  /\ CanStart(p)
  /\ LET uid   == current_user[p]
         rows  == SelectPortfolioRows(db, uid)
         items == [s \in DOMAIN rows |-> PortfolioItem(s, rows[s], oracle[s])]
         order == RowOrder(DOMAIN rows)
     IN  view' = [view EXCEPT ![p] =
                    [kind |-> "portfolio_rows", user |-> uid, items |-> items,
                     total_value |-> PortfolioTotal(items, order, FALSE, FZero),
                     total_cost |-> PortfolioTotal(items, order, TRUE, FZero),
                     wallet |-> FZero]]
  /\ pc' = [pc EXCEPT ![p] = "portfolio_wallet"]
  /\ flash' = [flash EXCEPT ![p] = NoFlash]
  /\ ops_left' = ops_left - 1
  /\ UNCHANGED <<db, txn, lock, local, current_user, session, response>>

\* portfolio's read of the balance and its response
portfolio_wallet(p) ==
  /\ pc[p] = "portfolio_wallet"
  /\ view' = [view EXCEPT ![p] =
                [@ EXCEPT !.kind = "portfolio",
                          !.wallet = get_wallet_balance(db, current_user[p])]]
  /\ pc' = [pc EXCEPT ![p] = "idle"]
  /\ UNCHANGED <<db, txn, lock, local, flash, current_user, session, response, ops_left>>

api_profit(p, oracle) ==
  /\ CanStart(p)
  /\ LET uid  == current_user[p]
         rows == SelectPortfolioRows(db, uid)
     IN  view' = [view EXCEPT ![p] =
                    [NoView EXCEPT
                       !.kind = "profit", !.user = uid,
                       !.items = [s \in DOMAIN rows |-> ProfitEntry(s, rows[s], oracle[s])]]]
  /\ ops_left' = ops_left - 1
  /\ UNCHANGED <<db, txn, lock, pc, local, flash, current_user, session, response>>

\* mutant: the list is cleared once it was read
transactions_ClearsLog(p) ==
  /\ CanStart(p)
  /\ view' = [view EXCEPT ![p] =
                [NoView EXCEPT
                   !.kind = "transactions", !.user = current_user[p],
                   !.items = SelectTransactionsDesc(db.transactions, current_user[p])]]
  /\ flash' = [flash EXCEPT ![p] = NoFlash]
  /\ ops_left' = ops_left - 1
  /\ db' = [db EXCEPT !.transactions = <<>>]
  /\ UNCHANGED <<txn, lock, pc, local, current_user, session, response>>

transactions(p) ==
  /\ CanStart(p)
  /\ view' = [view EXCEPT ![p] =
                [NoView EXCEPT
                   !.kind = "transactions", !.user = current_user[p],
                   !.items = SelectTransactionsDesc(db.transactions, current_user[p])]]
  /\ flash' = [flash EXCEPT ![p] = NoFlash]
  /\ ops_left' = ops_left - 1
  /\ UNCHANGED <<db, txn, lock, pc, local, current_user, session, response>>

Next ==
  \E p \in Procs :
    \/ \E a \in AmountForms : wallet_add(p, a)
    \/ record_transaction(p)
    \/ \E s \in SymbolForms, q \in QtyForms, src \in SourceForms, o \in OracleOutcomes :
         buy(p, s, q, src, o)
    \/ buy_deduct(p)
    \/ buy_upsert(p)
    \/ buy_record(p)
    \/ buy_commit(p)
    \/ \E s \in SymbolForms, q \in QtyForms, o \in OracleOutcomes : sell(p, s, q, o)
    \/ sell_position(p)
    \/ sell_credit(p)
    \/ sell_record(p)
    \/ sell_commit(p)
    \/ \E o \in [Symbols -> ViewOracleOutcomes] : portfolio(p, o)
    \/ portfolio_wallet(p)
    \/ \E o \in [Symbols -> ViewOracleOutcomes] : api_profit(p, o)
    \/ transactions(p)

Spec == Init /\ [][Next]_vars

\* The account after a deposit of 1000 and a buy of 5 AAPL at the fallback
\* price (a state Spec reaches), with two workers serving requests of its
\* user at the same time.
FundedDb ==
  [wallet |-> [u \in Users |-> IF u = 1 THEN FromInt(100) ELSE FZero],
   portfolio |-> (<<1, AAPL>> :> [qty |-> 5, avg_price |-> FromInt(180)]),
   transactions |->
     <<[user_id |-> 1, type |-> "deposit", symbol |-> None, qty |-> None,
        price |-> FromInt(1000)],
       [user_id |-> 1, type |-> "buy", symbol |-> AAPL, qty |-> 5,
        price |-> FromInt(180)]>>]

InitConc ==
  /\ db = FundedDb
  /\ InitWorkers([p \in Procs |-> 1], MaxConcOps)

SpecConc == InitConc /\ [][Next]_vars

\* A statement or commit of a request raises sqlite3.Error (disk full, I/O
\* error).  No handler catches it: the request ends with a server error,
\* and its connection is closed without a commit, which rolls back the
\* writes of an open transaction.  What was committed before stays.
ServerError == "Internal Server Error"

\* mutant: closing the connection commits the open transaction
storage_fault_Commits(p) ==
  /\ pc[p] # "idle"
  /\ IF lock = p
     THEN db' = txn /\ txn' = txn /\ lock' = 0
     ELSE UNCHANGED <<db, txn, lock>>
  /\ pc' = [pc EXCEPT ![p] = "idle"]
  /\ local' = [local EXCEPT ![p] = NoLocal]
  /\ flash' = [flash EXCEPT ![p] = ServerError]
  /\ UNCHANGED <<current_user, session, response, ops_left, view>>

storage_fault(p) ==
  /\ pc[p] # "idle"
  /\ IF lock = p
     THEN txn' = db /\ lock' = 0 /\ UNCHANGED db
     ELSE UNCHANGED <<db, txn, lock>>
  /\ pc' = [pc EXCEPT ![p] = "idle"]
  /\ local' = [local EXCEPT ![p] = NoLocal]
  /\ flash' = [flash EXCEPT ![p] = ServerError]
  /\ UNCHANGED <<current_user, session, response, ops_left, view>>

NextFault == Next \/ \E p \in Procs : storage_fault(p)

\* one session on a fresh database, with storage faults
SpecFault == Init /\ [][NextFault]_vars

\* buy requests whose symbol field is blank, besides the others
NextBlank ==
  \/ Next
  \/ \E p \in Procs, s \in BlankSymbolForms, q \in QtyForms, src \in SourceForms,
        o \in OracleOutcomes : buy(p, s, q, src, o)

\* one session on a fresh database, blank symbols included
SpecBlank == Init /\ [][NextBlank]_vars

\* Two accounts, each after a deposit of 1000 and a buy of 5 AAPL at the
\* fallback price, and one worker for each.
TwoAccountsDb ==
  [wallet |-> [u \in Users |-> FromInt(100)],
   portfolio |-> [k \in {<<u, AAPL>> : u \in Users} |->
                   [qty |-> 5, avg_price |-> FromInt(180)]],
   transactions |->
     FundedDb.transactions \o
     [i \in 1..2 |-> [FundedDb.transactions[i] EXCEPT !.user_id = 2]]]

InitAccounts ==
  /\ db = TwoAccountsDb
  /\ InitWorkers([p \in Procs |-> p], MaxConcOps)

SpecAccounts == InitAccounts /\ [][Next]_vars

\* The same account with one worker: requests served one at a time.
InitSeq ==
  /\ db = FundedDb
  /\ InitWorkers([p \in Procs |-> IF p = 1 THEN 1 ELSE NoUser], MaxConcOps)

SpecSeq == InitSeq /\ [][Next]_vars

\* The account after a deposit of 1000 and nothing else, with two workers.
DepositedDb ==
  [wallet |-> [u \in Users |-> IF u = 1 THEN FromInt(1000) ELSE FZero],
   portfolio |-> <<>>,
   transactions |-> <<FundedDb.transactions[1]>>]

InitDeposited ==
  /\ db = DepositedDb
  /\ InitWorkers([p \in Procs |-> 1], MaxConcOps)

SpecDeposited == InitDeposited /\ [][Next]_vars

\* The funded account after two buys of 5 ZZ at the quote 20 that ran at
\* the same time and both passed the balance check against the balance
\* 100 (a state SpecConc reaches): the balance is -100.
OverdrawnDb ==
  [wallet |-> [u \in Users |-> IF u = 1 THEN FNeg(FromInt(100)) ELSE FZero],
   portfolio |-> (<<1, AAPL>> :> [qty |-> 5, avg_price |-> FromInt(180)]
                  @@ <<1, <<"Z","Z">>>> :> [qty |-> 10, avg_price |-> FromInt(20)]),
   transactions |->
     FundedDb.transactions \o
     [i \in 1..2 |-> [user_id |-> 1, type |-> "buy", symbol |-> <<"Z","Z">>, qty |-> 5,
                      price |-> FromInt(20)]]]

InitOverdrawn ==
  /\ db = OverdrawnDb
  /\ InitWorkers([p \in Procs |-> 1], MaxConcOps)

SpecOverdrawn == InitOverdrawn /\ [][Next]_vars

\* requests served in a run of the hangman game
MaxGuesses == 6

\* the letter fields posted: letters, an upper-case letter, the empty field
LetterForms ==
  { <<"a">>, <<"l">>, <<"p">>, <<"h">>, <<"z">>, <<"y">>, <<"A">>, <<>> }

\* the values word can take in a request: random.choice(WORDS) when a
\* game starts, the session's word otherwise
WordChoices ==
  IF "word" \notin session.keys THEN {WORDS[i] : i \in 1..Len(WORDS)} ELSE {session.word}

\* a hangman request leaves the ledger alone; word is the local variable
\* of that name
HangmanRequest(word) ==
  /\ ops_left > 0
  /\ word \in WordChoices
  /\ ops_left' = ops_left - 1
  /\ UNCHANGED <<db, txn, lock, pc, local, flash, current_user, view>>

\* GET /
game_get(word) ==
  /\ HangmanRequest(word)
  /\ LET s == game_start(session, word)
         r == game_render(s, [session |-> s, message |-> ""])
     IN  /\ session' = r.session
         /\ response' = r.response

\* POST / with a letter field
game_post(letterForm, word) ==
  /\ HangmanRequest(word)
  /\ LET s == game_start(session, word)
         r == game_render(s, game_guess(s, StrLower(letterForm)))
     IN  /\ session' = r.session
         /\ response' = r.response

\* POST / without a letter field: request.form["letter"] ends the handler
\* at line 155 with 400 Bad Request, after a new game was stored in the
\* session
game_bad_request(word) ==
  /\ HangmanRequest(word)
  /\ session' = game_start(session, word)
  /\ response' = [NoResponse EXCEPT !.status = 400]

NextHangman ==
  \/ \E i \in 1..Len(WORDS) : game_get(WORDS[i])
  \/ \E f \in LetterForms, i \in 1..Len(WORDS) : game_post(f, WORDS[i])
  \/ \E i \in 1..Len(WORDS) : game_bad_request(WORDS[i])

\* one player of the hangman game; no ledger request is served
InitHangman ==
  /\ db = EmptyDb
  /\ InitWorkers([p \in Procs |-> NoUser], MaxGuesses)

SpecHangman == InitHangman /\ [][NextHangman]_vars


(***************************************************************************)
(* Reading the log                                                         *)
(***************************************************************************)
IsTrade(r, typ, uid, symbol) ==
  r.type = typ /\ r.user_id = uid /\ r.symbol = symbol

\* total quantity of the typ records of uid for symbol
RECURSIVE LogQty(_, _, _, _)
LogQty(log, typ, uid, symbol) ==
  IF log = <<>> THEN 0
  ELSE LogQty(SubSeq(log, 1, Len(log) - 1), typ, uid, symbol)
       + (IF IsTrade(log[Len(log)], typ, uid, symbol) THEN log[Len(log)].qty ELSE 0)

\* total of price * qty over the typ records of uid for symbol, in log order
RECURSIVE LogCost(_, _, _, _)
LogCost(log, typ, uid, symbol) ==
  IF log = <<>> THEN FZero
  ELSE LET r == log[Len(log)]
           front == LogCost(SubSeq(log, 1, Len(log) - 1), typ, uid, symbol)
       IN  IF IsTrade(r, typ, uid, symbol) THEN FAdd(front, FMulInt(r.price, r.qty))
           ELSE front

AllIdle == \A p \in Procs : pc[p] = "idle"

BuyInFlight == {"buy_deduct", "buy_upsert", "buy_record", "buy_commit"}

SellInFlight == {"sell_position", "sell_credit", "sell_record", "sell_commit"}

(***************************************************************************)
(* C1: for every account the wallet balance is >= 0 before and after every *)
(* deposit, buy and sell executed one at a time.                           *)
(***************************************************************************)
C1_BalanceNonNegative == \A u \in Users : ~FLess(db.wallet[u], FZero)

(***************************************************************************)
(* C2: two buys running concurrently on one account never both pass the    *)
(* sufficiency check against the same stale balance and together overdraw  *)
(* the wallet: whenever two buys of one account are both past their check  *)
(* and not yet committed, their costs together do not exceed the committed *)
(* balance.                                                                *)
(***************************************************************************)
C2_NoStaleDoublePass ==
  \A p, q \in Procs :
    (/\ p # q
     /\ current_user[p] = current_user[q]
     /\ pc[p] \in BuyInFlight
     /\ pc[q] \in BuyInFlight)
    => ~FGreater(FAdd(local[p].amount, local[q].amount), db.wallet[current_user[p]])

(***************************************************************************)
(* C3: weighted-average law.  For a position whose symbol has only been    *)
(* bought, the quantity is the sum of the bought quantities and            *)
(* avg_price * qty equals the sum of qty_i * price_i.                      *)
(***************************************************************************)
C3_WeightedAverageLaw ==
  \A k \in DOMAIN db.portfolio :
    LogQty(db.transactions, "sell", k[1], k[2]) = 0
    => /\ db.portfolio[k].qty = LogQty(db.transactions, "buy", k[1], k[2])
       /\ FMulInt(db.portfolio[k].avg_price, db.portfolio[k].qty)
            = LogCost(db.transactions, "buy", k[1], k[2])


(***************************************************************************)
(* C4: a sell whose quantity equals the held quantity deletes the          *)
(* position, and a smaller sell leaves it with quantity held - sold.       *)
(***************************************************************************)
C4_SellToZeroRemoves ==
  [][\A p \in Procs :
       (pc[p] = "sell_commit" /\ pc'[p] = "idle")
       => LET k    == <<current_user[p], local[p].symbol>>
              held == SelectPortfolio(db, k[1], k[2]).qty
          IN  /\ local[p].qty = held => k \notin DOMAIN db'.portfolio
              /\ local[p].qty < held
                 => /\ k \in DOMAIN db'.portfolio
                    /\ db'.portfolio[k].qty = held - local[p].qty]_vars

\* everything bought of AAPL has been sold again and no position is left
C4_Witness ==
  /\ flash[1] = "Sold"
  /\ LogQty(db.transactions, "buy", 1, AAPL) > 0
  /\ LogQty(db.transactions, "sell", 1, AAPL) = LogQty(db.transactions, "buy", 1, AAPL)
  /\ <<1, AAPL>> \notin DOMAIN db.portfolio

(***************************************************************************)
(* C5: a buy whose cost price * quantity is strictly greater than the      *)
(* balance fails with "Insufficient wallet balance" and leaves the         *)
(* database unchanged: no buy passes its check with cost > balance, and    *)
(* the rejected buy writes nothing.                                        *)
(***************************************************************************)
C5_InsufficiencyGuard ==
  [][\A p \in Procs :
       /\ (pc[p] = "idle" /\ pc'[p] = "buy_deduct")
          => ~FGreater(local'[p].amount, db.wallet[current_user[p]])
       /\ (/\ pc[p] = "idle" /\ pc'[p] = "idle" /\ ops_left' # ops_left
           /\ flash'[p] = "Insufficient wallet balance")
          => db' = db /\ txn' = txn]_vars

(***************************************************************************)
(* C6: on a fresh account, deposit 1000, buy 5 AAPL at the fallback price  *)
(* 180.0 and sell 2 at 190.0 give in turn balance 1000, then balance 100   *)
(* with position {AAPL, 5, 180.0}, then balance 480 with position          *)
(* {AAPL, 3, 180.0} and the log [deposit 1000, buy 5@180.0, sell 2@190.0]. *)
(***************************************************************************)
AfterDeposit ==
  [EmptyDb EXCEPT !.wallet[1] = FromInt(1000),
                  !.transactions = <<FundedDb.transactions[1]>>]

AfterSell ==
  [wallet |-> [u \in Users |-> IF u = 1 THEN FromInt(480) ELSE FZero],
   portfolio |-> (<<1, AAPL>> :> [qty |-> 3, avg_price |-> FromInt(180)]),
   transactions |->
     Append(FundedDb.transactions,
            [user_id |-> 1, type |-> "sell", symbol |-> AAPL, qty |-> 2,
             price |-> FromInt(190)])]

C6_Scenario ==
  [][\A p \in Procs :
       current_user[p] = 1 =>
       /\ (/\ db = EmptyDb /\ pc[p] = "idle" /\ pc'[p] = "record_transaction"
           /\ local'[p].amount = FromInt(1000))
          => db' = [EmptyDb EXCEPT !.wallet[1] = FromInt(1000)]
       /\ (/\ db = [EmptyDb EXCEPT !.wallet[1] = FromInt(1000)]
           /\ pc[p] = "record_transaction" /\ local[p].amount = FromInt(1000)
           /\ pc'[p] = "idle")
          => db' = AfterDeposit
       /\ (/\ db = AfterDeposit /\ pc[p] = "buy_commit" /\ pc'[p] = "idle"
           /\ local[p].symbol = AAPL /\ local[p].qty = 5
           /\ local[p].price = FromInt(180))
          => db' = FundedDb
       /\ (/\ db = FundedDb /\ pc[p] = "sell_commit" /\ pc'[p] = "idle"
           /\ local[p].symbol = AAPL /\ local[p].qty = 2
           /\ local[p].price = FromInt(190))
          => db' = AfterSell]_vars

C6_Witness == db = AfterSell /\ AllIdle /\ flash[1] = "Sold"

(***************************************************************************)
(* C7: a deposit, buy or sell rejected with a validation error returns     *)
(* before any write: the database is the same before and after the call.   *)
(***************************************************************************)
ValidationErrors ==
  {"Invalid amount", "Enter positive amount", "Enter positive integer quantity",
   "Insufficient wallet balance", "You do not own this stock",
   "You don't have that many shares"}

C7_RejectedLeavesState ==
  [][\A p \in Procs :
       (/\ pc[p] = "idle" /\ pc'[p] = "idle" /\ ops_left' # ops_left
        /\ flash'[p] \in ValidationErrors)
       => db' = db /\ txn' = txn /\ lock' = lock]_vars

\* a call was rejected on an account that has a balance, a position and a log
C7_Witness ==
  /\ flash[1] \in ValidationErrors
  /\ pc[1] = "idle"
  /\ db.transactions # <<>>
  /\ DOMAIN db.portfolio # {}

(***************************************************************************)
(* C8: for a positive integer quantity, sell is rejected with "You do not  *)
(* own this stock" when the account has no position in the symbol, with    *)
(* "You don't have that many shares" when the quantity exceeds the held    *)
(* quantity, and goes through ("Sold") for every 1 <= quantity <= held.    *)
(***************************************************************************)
C8_SellGuards ==
  [][\A p \in Procs :
       /\ \A s \in SymbolForms, f \in QtyForms, o \in OracleOutcomes :
            sell(p, s, f, o) =>
              LET q == ParseInt(f)
                  k == <<current_user[p], StrUpper(StrStrip(s))>>
              IN  (q.ok /\ q.val >= 1) =>
                    IF k \notin DOMAIN db.portfolio
                    THEN flash'[p] = "You do not own this stock" /\ pc'[p] = "idle"
                    ELSE IF q.val > db.portfolio[k].qty
                    THEN flash'[p] = "You don't have that many shares" /\ pc'[p] = "idle"
                    ELSE pc'[p] = "sell_position" /\ db' = db
       /\ (pc[p] = "sell_commit" /\ pc'[p] # pc[p])
          => pc'[p] = "idle" /\ flash'[p] = "Sold"]_vars

\* a sell of exactly the quantity bought just before went through
C8_Witness ==
  /\ flash[1] = "Sold"
  /\ Len(db.transactions) >= 2
  /\ db.transactions[Len(db.transactions)].type = "sell"
  /\ db.transactions[Len(db.transactions) - 1].type = "buy"
  /\ db.transactions[Len(db.transactions)].qty = db.transactions[Len(db.transactions) - 1].qty
  /\ db.transactions[Len(db.transactions)].symbol = db.transactions[Len(db.transactions) - 1].symbol

C10_PositionsMatchTrades ==
  \A u \in Users, s \in Symbols :
    LET bought == LogQty(db.transactions, "buy", u, s)
        sold   == LogQty(db.transactions, "sell", u, s)
    IN  /\ sold <= bought
        /\ SelectPortfolio(db, u, s).qty = bought - sold

(***************************************************************************)
(* C11: the transaction log is append-only.  Every step of a deposit, buy, *)
(* sell or view leaves the records already in the log as they are, at      *)
(* their places, and at most adds records after them.                      *)
(***************************************************************************)
C11_LogAppendOnly ==
  [][/\ Len(db'.transactions) >= Len(db.transactions)
     /\ SubSeq(db'.transactions, 1, Len(db.transactions)) = db.transactions]_vars

\* the log has grown to three records and the transaction list was read
C11_Witness ==
  /\ Len(db.transactions) >= 2
  /\ view[1].kind = "transactions"
  /\ Len(view[1].items) = Len(db.transactions)

(***************************************************************************)
(* C12: P/L identity.  For every position of a portfolio view and of a     *)
(* profit-data view, the profit/loss reported is (price - avg) * qty for   *)
(* the price the call resolved, to the two decimals reported.              *)
(***************************************************************************)
C12_ProfitLossIdentity ==
  \A p \in Procs :
    view[p].kind \in {"portfolio_rows", "portfolio", "profit"}
    => \A s \in DOMAIN view[p].items :
         LET i == view[p].items[s]
         IN  CentsValue(i.pl)
               = CentsValue(Round2(FMulInt(FSub(i.price_raw, i.avg_raw), i.qty)))

(***************************************************************************)
(* C13: valuation is idempotent.  A portfolio valuation computed for an    *)
(* account from the same rows and the same resolved prices as an earlier   *)
(* one, of this worker or of another, has the same entries and the same    *)
(* totals.                                                                 *)
(***************************************************************************)
IsPortfolioView(v) == v.kind \in {"portfolio_rows", "portfolio"}

\* the two valuations read the same rows and got the same prices
SameInputs(v, w) ==
  /\ v.user = w.user
  /\ DOMAIN v.items = DOMAIN w.items
  /\ \A s \in DOMAIN v.items :
       /\ v.items[s].qty = w.items[s].qty
       /\ v.items[s].avg_raw = w.items[s].avg_raw
       /\ v.items[s].price_raw = w.items[s].price_raw

C13_ValuationIdempotent ==
  [][\A p, q \in Procs :
       (/\ pc[p] = "idle" /\ pc'[p] = "portfolio_wallet"
        /\ IsPortfolioView(view[q])
        /\ SameInputs(view[q], view'[p]))
       => /\ view'[p].items = view[q].items
          /\ view'[p].total_value = view[q].total_value
          /\ view'[p].total_cost = view[q].total_cost]_vars

\* both workers hold a valuation of the same position at the same price
C13_Witness ==
  /\ view[1].kind = "portfolio"
  /\ view[2].kind = "portfolio"
  /\ DOMAIN view[1].items # {}
  /\ SameInputs(view[1], view[2])
  /\ view[1].total_value = view[2].total_value
  /\ view[1].total_value # FZero

(***************************************************************************)
(* C14: a deposit is rejected when its amount is <= 0 and accepted when it *)
(* is > 0; a buy or a sell is rejected when its quantity is <= 0 or is not *)
(* an integer.                                                             *)
(***************************************************************************)
NonPositiveAmountForms == { <<"0">>, <<"-","5">> }

PositiveAmountForms ==
  { <<"1","0","0","0">>,
    <<"3","9",".","9","9","9","9","9","9","9","9","9","5">> }

BadQtyForms == { <<"0">>, <<"x">>, <<"-","3">>, <<"2",".","5">> }

C14_Validation ==
  [][\A p \in Procs :
       /\ \A f \in AmountForms :
            wallet_add(p, f) =>
              /\ f \in NonPositiveAmountForms
                 => /\ pc'[p] = "idle" /\ flash'[p] = "Enter positive amount"
                    /\ db' = db
              /\ f \in PositiveAmountForms
                 => /\ pc'[p] = "record_transaction"
                    /\ FGreater(db'.wallet[current_user[p]], db.wallet[current_user[p]])
       /\ \A s \in SymbolForms, f \in BadQtyForms, o \in OracleOutcomes :
            /\ \A src \in SourceForms :
                 buy(p, s, f, src, o) =>
                   /\ pc'[p] = "idle" /\ flash'[p] = "Enter positive integer quantity"
                   /\ db' = db
            /\ sell(p, s, f, o) =>
                 /\ pc'[p] = "idle" /\ flash'[p] = "Enter positive integer quantity"
                 /\ db' = db]_vars

\* a quantity was refused on an account whose deposit had been accepted
C14_Witness ==
  /\ flash[1] = "Enter positive integer quantity"
  /\ FGreater(db.wallet[1], FZero)
  /\ db.transactions # <<>>
  /\ db.transactions[1].type = "deposit"
  /\ ops_left = 0

C17_FirstBuyCreatesPosition ==
  [][\A p \in Procs :
       (/\ pc[p] = "buy_commit" /\ pc'[p] = "idle" /\ flash'[p] = "Bought"
        /\ <<current_user[p], local[p].symbol>> \notin DOMAIN db.portfolio)
       => LET k == <<current_user[p], local[p].symbol>>
          IN  /\ DOMAIN db'.portfolio = DOMAIN db.portfolio \cup {k}
              /\ db'.portfolio[k] = [qty |-> local[p].qty, avg_price |-> local[p].price]
              /\ \A j \in DOMAIN db.portfolio : db'.portfolio[j] = db.portfolio[j]]_vars

\* the first buy of a symbol went through on an account that already held
\* another one
C17_Witness ==
  /\ flash[1] = "Bought"
  /\ Cardinality(DOMAIN db.portfolio) = 2
  /\ LET rec == db.transactions[Len(db.transactions)]
     IN  /\ rec.type = "buy"
         /\ LogQty(db.transactions, "buy", 1, rec.symbol) = rec.qty
         /\ rec.price # FZero

(***************************************************************************)
(* C18: a sell of less than the held quantity leaves the avg_price of the  *)
(* position and every other position as they are: of the positions only    *)
(* the quantity of the sold symbol changes.                                *)
(***************************************************************************)
C18_PartialSellFrame ==
  [][\A p \in Procs :
       (/\ pc[p] = "sell_commit" /\ pc'[p] = "idle" /\ flash'[p] = "Sold"
        /\ local[p].qty < SelectPortfolio(db, current_user[p], local[p].symbol).qty)
       => LET k == <<current_user[p], local[p].symbol>>
          IN  /\ DOMAIN db'.portfolio = DOMAIN db.portfolio
              /\ db'.portfolio[k].avg_price = db.portfolio[k].avg_price
              /\ db'.portfolio[k].qty = db.portfolio[k].qty - local[p].qty
              /\ \A j \in DOMAIN db.portfolio \ {k} : db'.portfolio[j] = db.portfolio[j]]_vars

\* part of a position was sold while the account held a second position
C18_Witness ==
  /\ flash[1] = "Sold"
  /\ Cardinality(DOMAIN db.portfolio) = 2
  /\ LET rec == db.transactions[Len(db.transactions)]
     IN  /\ rec.type = "sell"
         /\ <<1, rec.symbol>> \in DOMAIN db.portfolio
         /\ db.portfolio[<<1, rec.symbol>>].qty
              = LogQty(db.transactions, "buy", 1, rec.symbol) - rec.qty

(***************************************************************************)
(* C19: a storage fault that aborts a deposit, buy or sell leaves no       *)
(* partial state committed: after the abort the balance, the positions and *)
(* the log reflect all of the operation or none of it.  For a buy or sell  *)
(* the database is as before the operation; for a deposit the balance is   *)
(* not left credited without the deposit record.                           *)
(***************************************************************************)
Aborted(p) == pc[p] # "idle" /\ pc'[p] = "idle" /\ flash'[p] = ServerError

C19_NoPartialCommit ==
  [][\A p \in Procs :
       Aborted(p)
       => IF pc[p] = "record_transaction"
          THEN \/ db'.wallet[current_user[p]]
                    = FSub(db.wallet[current_user[p]], local[p].amount)
               \/ /\ db'.transactions # <<>>
                  /\ db'.transactions[Len(db'.transactions)].type = "deposit"
                  /\ db'.transactions[Len(db'.transactions)].price = local[p].amount
                  /\ Len(db'.transactions) = Len(db.transactions) + 1
          ELSE db' = db /\ txn' = db']_vars

(***************************************************************************)
(* C19 as amended: a storage fault that aborts a buy or sell at any step   *)
(* leaves the committed balance, positions and log as they were before the *)
(* operation, and its uncommitted writes are gone.  A deposit commits its  *)
(* balance credit before it appends its record: a fault in between leaves  *)
(* the balance credited and the log without the deposit record.            *)
(***************************************************************************)
C19_FaultEffects ==
  [][\A p \in Procs :
       Aborted(p)
       => /\ db' = db
          /\ txn' = db'
          /\ lock' # p
          /\ pc[p] = "record_transaction"
             => /\ db'.wallet[current_user[p]] = db.wallet[current_user[p]]
                /\ db'.transactions = db.transactions]_vars

\* a deposit was aborted after its credit: the balance is there, the log is
\* empty
C19_Witness ==
  /\ flash[1] = ServerError
  /\ pc[1] = "idle"
  /\ lock = 0
  /\ txn = db
  /\ db.transactions = <<>>
  /\ db.portfolio = <<>>
  /\ FGreater(db.wallet[1], FZero)

(***************************************************************************)
(* C20: one record per executed operation.  The step that completes a      *)
(* successful deposit, buy or sell adds exactly one record, of its kind    *)
(* and account; no other step, and so no rejected operation, adds one.     *)
(***************************************************************************)
Completed(p) ==
  /\ pc[p] \in {"record_transaction", "buy_commit", "sell_commit"}
  /\ pc'[p] = "idle"
  /\ flash'[p] \in {"Added", "Bought", "Sold"}

KindOf(msg) ==
  CASE msg = "Added" -> "deposit" [] msg = "Bought" -> "buy" [] msg = "Sold" -> "sell"

C20_OneRecordPerOperation ==
  [][LET done == {p \in Procs : Completed(p)}
     IN  /\ Len(db'.transactions) = Len(db.transactions) + Cardinality(done)
         /\ \A p \in done :
              LET rec == db'.transactions[Len(db'.transactions)]
              IN  /\ rec.user_id = current_user[p]
                  /\ rec.type = KindOf(flash'[p])]_vars

\* a deposit and a buy went through and a third operation was rejected: two
\* records
C20_Witness ==
  /\ ops_left = 0
  /\ AllIdle
  /\ flash[1] \in ValidationErrors
  /\ Len(db.transactions) = 2
  /\ db.transactions[1].type = "deposit"
  /\ db.transactions[2].type = "buy"

(***************************************************************************)
(* C21: the records of one account are logged in the order in which the    *)
(* operations' mutations were committed, also under concurrency.  A        *)
(* deposit whose credit is committed has its record logged before the      *)
(* record of any buy or sell of the account that commits after the credit: *)
(* while the deposit's record is outstanding, no buy or sell record of the *)
(* account enters the log.                                                 *)
(***************************************************************************)
C21_LogFollowsCommitOrder ==
  [][\A p \in Procs :
       pc[p] = "record_transaction"
       => \A i \in (Len(db.transactions) + 1)..Len(db'.transactions) :
            db'.transactions[i].user_id = current_user[p]
            => db'.transactions[i].type = "deposit"]_vars

(***************************************************************************)
(* C22: every stored position has a positive integer quantity, in the      *)
(* committed database and in the uncommitted copy of a write transaction,  *)
(* after any buys and sells, one at a time or interleaved.                 *)
(***************************************************************************)
C22_PositiveQuantities ==
  /\ \A k \in DOMAIN db.portfolio :
       db.portfolio[k].qty \in Nat /\ db.portfolio[k].qty > 0
  /\ \A k \in DOMAIN txn.portfolio :
       txn.portfolio[k].qty \in Nat /\ txn.portfolio[k].qty > 0

\* a sell and a buy of the account both went through and left a position
\* that is not the one they started from
C22_Witness ==
  /\ AllIdle
  /\ \E p, q \in Procs : flash[p] = "Sold" /\ flash[q] = "Bought"
  /\ <<1, AAPL>> \in DOMAIN db.portfolio
  /\ db.portfolio[<<1, AAPL>>].qty # FundedDb.portfolio[<<1, AAPL>>].qty

(***************************************************************************)
(* C23: every stored position has a non-empty, upper-case symbol, whatever *)
(* symbol strings, empty and white-space-only ones included, are passed to *)
(* buy.                                                                    *)
(***************************************************************************)
C23_SymbolsWellFormed ==
  \A k \in DOMAIN db.portfolio \cup DOMAIN txn.portfolio :
    k[2] # <<>> /\ StrUpper(k[2]) = k[2]

(***************************************************************************)
(* C24: buy resolves its price by source policy.  With source auto or live *)
(* the price is the oracle's quote, or the fallback table's value when the *)
(* lookup fails; with source fixed it is the fallback table's value,       *)
(* whatever the oracle would have answered.                                *)
(***************************************************************************)
C24_SourcePolicy ==
  [][\A p \in Procs :
       (pc[p] = "idle" /\ pc'[p] = "buy_deduct")
       => \A s \in SymbolForms, q \in QtyForms, src \in SourceForms,
             o \in OracleOutcomes :
            buy(p, s, q, src, o)
            => LET table == FallbackGet(StrUpper(StrStrip(s)))
               IN  /\ src \in {<<"a","u","t","o">>, <<"l","i","v","e">>}
                      => local'[p].price = IF o.ok THEN o.price ELSE table
                   /\ src = <<"f","i","x","e","d">> => local'[p].price = table]_vars

\* one buy went through at the fallback table's price and one at a quote
C24_Witness ==
  /\ flash[1] = "Bought"
  /\ \E i, j \in 1..Len(db.transactions) :
       /\ db.transactions[i].type = "buy"
       /\ db.transactions[j].type = "buy"
       /\ db.transactions[i].price = FallbackGet(db.transactions[i].symbol)
       /\ db.transactions[i].price # FZero
       /\ db.transactions[j].price # FallbackGet(db.transactions[j].symbol)
       /\ db.transactions[j].symbol = db.transactions[i].symbol

(***************************************************************************)
(* C25: price resolution never fails.  When the lookup fails the price is  *)
(* the fallback table's value for the trimmed, upper-cased symbol (180 for *)
(* " aapl") and 0 for a symbol the table does not know ("ZZ"), and the buy, *)
(* sell or view that asked goes on with that price.                        *)
(***************************************************************************)
FailedLookup == [ok |-> FALSE, price |-> FZero]

\* the step served a request of worker p and left it with a view of this
\* kind, the other workers' views being of the kind they were
ViewAnswered(p, kind) ==
  /\ pc[p] = "idle"
  /\ ops_left' # ops_left
  /\ view'[p].kind = kind
  /\ \A q \in Procs \ {p} : view'[q].kind = view[q].kind

C25_FallbackOnFailure ==
  [][\A p \in Procs :
       /\ \A s \in SymbolForms :
            LET sym == StrUpper(StrStrip(s))
            IN  /\ get_live_price(s, FailedLookup) = FallbackGet(sym)
                /\ sym = AAPL => get_live_price(s, FailedLookup) = FromInt(180)
                /\ sym \notin DOMAIN FALLBACK_PRICES
                   => get_live_price(s, FailedLookup) = FZero
       /\ (pc[p] = "idle" /\ pc'[p] \in {"buy_deduct", "sell_position"})
          => \A s \in SymbolForms, q \in QtyForms :
               /\ sell(p, s, q, FailedLookup)
                  => local'[p].price = FallbackGet(StrUpper(StrStrip(s)))
               /\ \A src \in {<<"a","u","t","o">>, <<"l","i","v","e">>} :
                    buy(p, s, q, src, FailedLookup)
                    => local'[p].price = FallbackGet(StrUpper(StrStrip(s)))
       /\ \A o \in [Symbols -> ViewOracleOutcomes] :
            (\/ ViewAnswered(p, "portfolio_rows") /\ portfolio(p, o)
             \/ ViewAnswered(p, "profit") /\ api_profit(p, o))
            => \A sym \in DOMAIN view'[p].items :
                 ~o[sym].ok => view'[p].items[sym].price_raw = FallbackGet(sym)]_vars

\* a symbol the table does not know was bought and sold at price 0, and a
\* view then valued the account
C25_Witness ==
  /\ Len(db.transactions) = 2
  /\ db.transactions[1].type = "buy"
  /\ db.transactions[2].type = "sell"
  /\ db.transactions[2].symbol \notin DOMAIN FALLBACK_PRICES
  /\ db.transactions[2].price = FZero
  /\ view[1].kind = "profit"

(***************************************************************************)
(* C26: valuation is side-effect-free.  Every step of the portfolio view,  *)
(* of the profit-data view and of the transaction list leaves the balance, *)
(* the positions and the log of every account as they are, committed and   *)
(* uncommitted, also while a write of another request is under way.        *)
(***************************************************************************)
C26_ViewsSideEffectFree ==
  [][\A p \in Procs :
       (\/ pc[p] = "idle" /\ pc'[p] = "portfolio_wallet"
        \/ pc[p] = "portfolio_wallet" /\ pc'[p] = "idle"
        \/ ViewAnswered(p, "transactions") /\ transactions(p)
        \/ /\ ViewAnswered(p, "profit")
           /\ \E o \in [Symbols -> ViewOracleOutcomes] : api_profit(p, o))
       => /\ db' = db
          /\ txn' = txn
          /\ lock' = lock]_vars

\* a portfolio view was answered while the other worker's buy of the same
\* account holds its writes uncommitted
C26_Witness ==
  \E p, q \in Procs :
    /\ pc[p] \in {"buy_upsert", "buy_record", "buy_commit"}
    /\ lock = p
    /\ txn # db
    /\ pc[q] = "idle"
    /\ view[q].kind = "portfolio"
    /\ view[q].user = current_user[p]
    /\ view[q].wallet = db.wallet[current_user[p]]

(***************************************************************************)
(* C27: operations on different accounts are independent.  A step of a     *)
(* deposit, buy or sell of account A leaves the balance, the positions and *)
(* the log records of every other account B as they are, and what the      *)
(* operation reads and writes for A is the same whatever B's balance,      *)
(* positions and records are, under every interleaving of the two.         *)
(***************************************************************************)
\* the balance, the positions and the records of account u
Account(d, u) ==
  [balance |-> d.wallet[u],
   positions |-> SelectPortfolioRows(d, u),
   log |-> SelectTransactionsDesc(d.transactions, u)]

\* d with account b as it is created: balance 0, no position, no record
Erase(d, b) ==
  LET Others(r) == r.user_id # b
  IN  [wallet |-> [d.wallet EXCEPT ![b] = FZero],
       portfolio |-> [k \in {j \in DOMAIN d.portfolio : j[1] # b} |-> d.portfolio[k]],
       transactions |-> SelectSeq(d.transactions, Others)]

\* the database after the write statement worker p executes next, d being
\* the database its connection sees
Statement(p, d) ==
  LET u == current_user[p]
      l == local[p]
  IN  CASE pc[p] = "record_transaction" ->
             InsertTransaction(d, u, "deposit", None, None, l.amount)
        [] pc[p] = "buy_deduct" -> UpdateWalletSub(d, u, l.amount)
        [] pc[p] = "buy_upsert" -> BuyUpsert(d, u, l.symbol, l.qty, l.price)
        [] pc[p] = "buy_record" -> InsertTransaction(d, u, "buy", l.symbol, l.qty, l.price)
        [] pc[p] = "sell_position" -> SellReduce(d, u, l.symbol, l.remaining)
        [] pc[p] = "sell_credit" -> UpdateWalletAdd(d, u, l.amount)
        [] pc[p] = "sell_record" -> InsertTransaction(d, u, "sell", l.symbol, l.qty, l.price)
        [] OTHER -> d

\* the database the connection of worker p sees
Seen(p) == IF lock = p THEN txn ELSE db

C27_AccountsIndependent ==
  [][\A p \in Procs, b \in Users :
       (current_user[p] # NoUser /\ b # current_user[p])
       => LET u == current_user[p]
          IN  /\ pc[p] = "idle"
                 => /\ get_wallet_balance(db, u) = get_wallet_balance(Erase(db, b), u)
                    /\ \A s \in Symbols :
                         SelectPortfolio(db, u, s) = SelectPortfolio(Erase(db, b), u, s)
              /\ pc'[p] # pc[p]
                 => /\ Account(db', b) = Account(db, b)
                    /\ Account(IF lock' = p THEN txn' ELSE db', u)
                         = Account(IF pc[p] = "idle" /\ pc'[p] = "record_transaction"
                                   THEN UpdateWalletAdd(Erase(db, b), u, local'[p].amount)
                                   ELSE Statement(p, Erase(Seen(p), b)), u)]_vars

\* a buy of one account and a sell of the other went through, and each
\* account is no longer as it started
C27_Witness ==
  \E p, q \in Procs :
    /\ current_user[p] # current_user[q]
    /\ AllIdle
    /\ flash[p] = "Bought"
    /\ flash[q] = "Sold"
    /\ Account(db, current_user[p]) # Account(TwoAccountsDb, current_user[p])
    /\ Account(db, current_user[q]) # Account(TwoAccountsDb, current_user[q])
    /\ Len(db.transactions) = Len(TwoAccountsDb.transactions) + 2

(***************************************************************************)
(* C28: audit trail of the balance.  Whenever no request is in progress,   *)
(* also after requests that ran concurrently, the balance of an account is *)
(* what its records add up to: the deposits' amounts, minus price * qty of *)
(* the buys, plus price * qty of the sells, summed as doubles in the order *)
(* of the log.                                                             *)
(***************************************************************************)
\* the records of uid summed up in log order
RECURSIVE LogBalance(_, _)
LogBalance(log, uid) ==
  IF log = <<>> THEN FZero
  ELSE LET r     == log[Len(log)]
           front == LogBalance(SubSeq(log, 1, Len(log) - 1), uid)
       IN  IF r.user_id # uid THEN front
           ELSE IF r.type = "deposit" THEN FAdd(front, r.price)
           ELSE IF r.type = "buy" THEN FSub(front, FMulInt(r.price, r.qty))
           ELSE FAdd(front, FMulInt(r.price, r.qty))

C28_BalanceMatchesLog ==
  AllIdle => \A u \in Users : db.wallet[u] = LogBalance(db.transactions, u)

(***************************************************************************)
(* C29: audit trail of the positions.  With operations executed one at a   *)
(* time, for every account and symbol the quantity held, 0 when there is   *)
(* no position, is the quantity of the symbol's buy records minus the      *)
(* quantity of its sell records in the account's log.                      *)
(***************************************************************************)
C29_PositionsMatchLog ==
  \A u \in Users, s \in Symbols :
    SelectPortfolio(db, u, s).qty
      = LogQty(db.transactions, "buy", u, s) - LogQty(db.transactions, "sell", u, s)

\* part of what two buys of a symbol brought in was sold
C29_Witness ==
  \E s \in Symbols :
    /\ flash[1] = "Sold"
    /\ AllIdle
    /\ Len(db.transactions) = 3
    /\ db.transactions[1].type = "buy"
    /\ db.transactions[2].type = "buy"
    /\ LogQty(db.transactions, "sell", 1, s) > 0
    /\ SelectPortfolio(db, 1, s).qty > 0
    /\ SelectPortfolio(db, 1, s).qty
         = db.transactions[1].qty + db.transactions[2].qty - db.transactions[3].qty

(***************************************************************************)
(* C30: two buys of one symbol that run concurrently on one account and    *)
(* both succeed lose no position update.  There is one position of the     *)
(* symbol, its quantity is oldQty + q1 + q2, and avg_price * qty equals    *)
(* oldQty * oldAvg + q1 * p1 + q2 * p2 (oldQty = 0 for two first buys).    *)
(***************************************************************************)
C30_ConcurrentBuysKeepUpdates ==
  (/\ AllIdle
   /\ \A p \in Procs : flash[p] = "Bought"
   /\ Len(db.transactions) = Len(DepositedDb.transactions) + 2)
  => LET n   == Len(db.transactions)
         r1  == db.transactions[n - 1]
         r2  == db.transactions[n]
         old == SelectPortfolio(DepositedDb, r1.user_id, r1.symbol)
         row == SelectPortfolio(db, r1.user_id, r1.symbol)
     IN  r1.symbol = r2.symbol
         => /\ row.found
            /\ row.qty = old.qty + r1.qty + r2.qty
            /\ FMulInt(row.avg_price, row.qty)
                 = FAdd(FAdd(FMulInt(old.avg_price, old.qty), FMulInt(r1.price, r1.qty)),
                        FMulInt(r2.price, r2.qty))

(***************************************************************************)
(* C31: a buy whose resolved price is 0 succeeds for every positive        *)
(* quantity whatever the balance is.  No such buy is refused for           *)
(* insufficient balance, and the buy that commits leaves the balance as    *)
(* it was and creates the position with avg_price 0 or adds the quantity   *)
(* to it.                                                                  *)
(***************************************************************************)
C31_ZeroPriceBuySucceeds ==
  [][\A p \in Procs :
       /\ (/\ pc[p] = "idle"
           /\ pc'[p] = "idle"
           /\ ops_left' # ops_left
           /\ flash'[p] = "Insufficient wallet balance")
          => \A s \in SymbolForms, q \in QtyForms, src \in SourceForms, o \in OracleOutcomes :
               buy(p, s, q, src, o) => BuyPrice(StrUpper(StrStrip(s)), src, o) # FZero
       /\ (pc[p] = "buy_commit" /\ pc'[p] = "idle" /\ local[p].price = FZero)
          => LET u   == current_user[p]
                 old == SelectPortfolio(db, u, local[p].symbol)
                 new == SelectPortfolio(db', u, local[p].symbol)
             IN  /\ db'.wallet[u] = db.wallet[u]
                 /\ new.found
                 /\ new.qty = (IF old.found THEN old.qty ELSE 0) + local[p].qty
                 /\ ~old.found => new.avg_price = FZero]_vars

(***************************************************************************)
(* C32: at the end of every hangman request the wrong counter kept in the  *)
(* session is below MAX_WRONG.  The guess of a letter that is not in the   *)
(* word and that brings the counter to MAX_WRONG ends the game as lost and *)
(* clears the session, no response                                         *)
(* reports a game both won and lost, a finished game leaves no session,    *)
(* and the request after it starts a game with wrong = 0, score = 0 and    *)
(* no guessed letter before its own guess is taken.                        *)
(***************************************************************************)
C32_WrongBelowMax ==
  [][/\ "wrong" \in session'.keys => session'.wrong < MAX_WRONG
     /\ ("wrong" \in session.keys /\ session.wrong = MAX_WRONG - 1)
        => \A f \in LetterForms :
             (/\ game_post(f, session.word)
              /\ Len(f) = 1
              /\ ~ListIn(StrLower(f), session.guessed)
              /\ \A i \in 1..Len(session.word) : <<session.word[i]>> # StrLower(f))
             => /\ response'.game_over
                /\ ~response'.win
                /\ response'.message = "GAME OVER! Word: "
                /\ session'.keys = {}
     /\ ~(response'.win /\ response'.message = "GAME OVER! Word: ")
     /\ response'.message = "YOU WON! Word: " => response'.win /\ response'.game_over
     /\ response'.game_over => session'.keys = {}
     /\ session.keys = {}
        => /\ response'.wrong = 0
           /\ response'.score = 0
           /\ session'.keys = SessionKeys
           /\ \E i \in 1..Len(WORDS) : session'.word = WORDS[i]
           /\ IF response'.status = 200 /\ response'.message # ""
              THEN /\ Len(session'.guessed) = 1
                   /\ <<session'.wrong, session'.score>> \in {<<0, 10>>, <<1, -5>>}
              ELSE /\ session'.guessed = <<>>
                   /\ session'.wrong = 0
                   /\ session'.score = 0]_vars

\* a game has just been lost on the sixth wrong guess, and another won
C32_Witness ==
  /\ response.message = "GAME OVER! Word: "
  /\ response.game_over
  /\ session.keys = {}
  /\ ops_left = 0

(***************************************************************************)
(* C33: a guess of a letter that is in the guessed list already changes    *)
(* nothing: the session, with its guessed list, wrong counter and score,   *)
(* stays as it is.  A new guess adds the letter to the list and changes    *)
(* the score by +10 with the wrong counter unchanged when the letter is in *)
(* the word, and by -5 with the wrong counter + 1 when it is not; the      *)
(* session holds these values unless the guess ends the game.              *)
(***************************************************************************)
C33_RepeatedGuessIsNoOp ==
  [][(response'.status = 200 /\ response'.message # "")
     => \A word \in WordChoices, f \in LetterForms :
          (Len(f) = 1 /\ game_post(f, word))
          => LET letter   == StrLower(f)
                 playing  == "word" \in session.keys
                 guessed  == IF playing THEN session.guessed ELSE <<>>
                 wrong    == IF playing THEN session.wrong ELSE 0
                 score    == IF playing THEN session.score ELSE 0
                 new      == game_guess(game_start(session, word), letter).session
                 repeated == \E k \in 1..Len(guessed) : guessed[k] = letter
                 inWord   == \E k \in 1..Len(word) : <<word[k]>> = letter
             IN  /\ repeated
                    => /\ <<new.guessed, new.wrong, new.score>> = <<guessed, wrong, score>>
                       /\ session' = session
                 /\ (~repeated /\ inWord)
                    => <<new.guessed, new.wrong, new.score>>
                         = <<Append(guessed, letter), wrong, score + 10>>
                 /\ (~repeated /\ ~inWord)
                    => <<new.guessed, new.wrong, new.score>>
                         = <<Append(guessed, letter), wrong + 1, score - 5>>
                 /\ ~response'.game_over
                    => <<session'.guessed, session'.wrong, session'.score>>
                         = <<new.guessed, new.wrong, new.score>>]_vars

\* a letter guessed before has been guessed again, after a wrong guess
C33_Witness ==
  /\ response.message = "Letter already guessed"
  /\ "word" \in session.keys
  /\ session.wrong > 0
  /\ session.score > 0

(***************************************************************************)
(* C34: the wrong-attempt count and the score shown in the response to a   *)
(* guess are the session's wrong counter and score after the guess has     *)
(* been processed: those of game_guess, which the session still holds when *)
(* the guess does not end the game.                                        *)
(***************************************************************************)
C34_ResponseShowsCurrent ==
  [][(response'.status = 200 /\ response'.message # "")
     => /\ ~response'.game_over
           => /\ response'.wrong = session'.wrong
              /\ response'.score = session'.score
        /\ \A word \in WordChoices, f \in LetterForms :
             game_post(f, word)
             => LET new == game_guess(game_start(session, word), StrLower(f)).session
                IN  /\ response'.wrong = new.wrong
                    /\ response'.score = new.score]_vars

====
